---- MODULE Spec2Model ----
(***************************************************************************)
(* Chain synchronization core of the p2p oracle node:                      *)
(*   - pool.BlockPool   (StoreBlock / FetchBlock / FetchBlockHeader over a  *)
(*                       transactional key/value store),                   *)
(*   - syncManager      (Start / Stop, initial block-pool sync, initial     *)
(*                       mempool sync, processReceivedBlock,                *)
(*                       onNewTransaction).                                 *)
(*                                                                         *)
(* Three specifications share the variables:                               *)
(*   Spec        the block pool API, called in any order with blocks from a *)
(*               small set and with storage faults;                        *)
(*   IngestSpec  the pool as initial sync writes it: genesis seeding, then  *)
(*               processReceivedBlock on an arbitrary list of received      *)
(*               blocks, one block per step;                               *)
(*   SyncSpec    the life cycle: Start (both initial syncs, statement by    *)
(*               statement between peer calls), the syncLoop goroutine,     *)
(*               Stop, and concurrent gossip callbacks.                    *)
(*                                                                         *)
(* Hashes are byte strings in the program; here a hash is a natural number  *)
(* and Keccak-256 is an injective, cycle-free function on naturals, so that *)
(* no verification succeeds through a collision.                           *)
(***************************************************************************)
EXTENDS Integers, Sequences, FiniteSets, TLC

VARIABLES
    db,                   \* BlockPool: the committed content of the LMDB database "blocks"
    mempool,              \* Mempool: tx hash -> transaction
    last,                 \* the last pool / callback operation and its outcome (history)
    pcStart,              \* position of the goroutine running Start()
    pcStop,               \* position of the goroutine running Stop()
    pcLoop,               \* position of the syncLoop goroutine
    wg,                   \* sm.wg counter
    ctxDone,              \* sm.ctx cancelled
    initialSyncCompleted, \* sm.initialSyncCompleted
    ourLastHeight,        \* locals of doInitialBlockPoolSync
    replyHeight,
    heightCount,
    from,
    to,
    receivedBlocks,
    procIdx,              \* index of the range loop over receivedBlocks
    rangeReqs,            \* history: the GetRangeOfBlocks arguments issued so far
    txsToRetrieve,        \* locals of doInitialMempoolSync
    txReqs,               \* history: number of GetMempoolTxs calls and the last argument
    syncErr               \* history: the errors the two initial syncs returned to Start

poolVars == <<db, mempool, last>>
blockSyncVars == <<ourLastHeight, replyHeight, heightCount, from, to, receivedBlocks,
                   procIdx, rangeReqs>>
mempoolSyncVars == <<txsToRetrieve, txReqs>>
lifeVars == <<pcStart, pcStop, pcLoop, wg, ctxDone, initialSyncCompleted, syncErr>>
syncVars == <<blockSyncVars, mempoolSyncVars, lifeVars>>
vars == <<poolVars, syncVars>>

Nil == "nil"

(***************************************************************************)
(* Keccak-256 and the Merkle proof verifier (go-merkletree).                *)
(***************************************************************************)
\* keccak256.Hash(x): the hash of one chunk
Keccak1(x) == 2 * x + 1

\* keccak256.Hash(x, y): the hash of the concatenation of two chunks
Keccak2(x, y) == 2 * (((x + y) * (x + y + 1)) \div 2 + y) + 2

NilProof == [IsNil |-> TRUE, Index |-> 0, Hashes |-> <<>>]

MkProof(index, hashes) == [IsNil |-> FALSE, Index |-> index, Hashes |-> hashes]

RECURSIVE Pow2(_)
Pow2(n) == IF n = 0 THEN 1 ELSE 2 * Pow2(n - 1)

\* the loop of VerifyProofUsing over proof.Hashes, from position i on
RECURSIVE ProofFold(_, _, _, _)
ProofFold(proofHash, index, hashes, i) ==
    IF i > Len(hashes) THEN proofHash
    ELSE ProofFold(IF index % 2 = 0 THEN Keccak2(proofHash, hashes[i])
                                    ELSE Keccak2(hashes[i], proofHash),
                   index \div 2, hashes, i + 1)

\* merkletree.VerifyProofUsing(data, false, proof, [][]byte{root}, keccak256.New()):
\* data is the leaf, root the single pollard entry. A nil proof is dereferenced
\* by the verifier; the call then yields no verdict (err), whatever the build does.
VerifyProofUsing(data, proof, root) ==
    IF proof.IsNil THEN [verified |-> FALSE, err |-> "proof"]
    ELSE [verified |-> ProofFold(Keccak1(data), proof.Index + Pow2(Len(proof.Hashes)),
                                 proof.Hashes, 1) = root,
          err |-> Nil]

(***************************************************************************)
(* Blocks and transactions (blockchain/types).                              *)
(***************************************************************************)
MkTx(hash, payload, proof) == [Hash |-> hash, Payload |-> payload, MerkleProof |-> proof]

MkHeader(height, hash, lastHash, proof) ==
    [Height |-> height, Hash |-> hash, LastHash |-> lastHash, LastHashProof |-> proof]

MkBlock(header, data) == [Header |-> header, Data |-> data]

\* Transaction.ValidateHash: the hash equals the recomputed content hash
ValidateHash(tx) == tx.Hash = Keccak1(tx.Payload)

GenesisHash == 0

\* types2.GenesisBlock()
GenesisBlock == MkBlock(MkHeader(0, GenesisHash, GenesisHash, NilProof), <<>>)

(***************************************************************************)
(* The codec of persisted records (cbor.Marshal / cbor.Unmarshal): a record *)
(* is written as a sequence of items, field after field in declaration      *)
(* order, a nil proof as the single item 0, a list with its length first.   *)
(***************************************************************************)
EncodeProof(p) ==
    IF p.IsNil THEN <<0>> ELSE <<1, p.Index, Len(p.Hashes)>> \o p.Hashes

EncodeHeader(h) == <<h.Height, h.Hash, h.LastHash>> \o EncodeProof(h.LastHashProof)

EncodeTx(t) == <<t.Hash, t.Payload>> \o EncodeProof(t.MerkleProof)

RECURSIVE EncodeTxs(_)
EncodeTxs(txs) ==
    IF txs = <<>> THEN <<>> ELSE EncodeTx(Head(txs)) \o EncodeTxs(Tail(txs))

\* cbor.Marshal(block.Header)
MarshalHeader(h) == EncodeHeader(h)

\* cbor.Marshal(block)
MarshalBlock(b) == EncodeHeader(b.Header) \o <<Len(b.Data)>> \o EncodeTxs(b.Data)

\* the decoders read s from position i and answer [ok, val, next]
DecodeProofAt(s, i) ==
    IF i > Len(s) THEN [ok |-> FALSE, val |-> NilProof, next |-> i]
    ELSE IF s[i] = 0 THEN [ok |-> TRUE, val |-> NilProof, next |-> i + 1]
    ELSE IF s[i] = 1 /\ i + 2 <= Len(s) /\ i + 2 + s[i + 2] <= Len(s)
         THEN [ok |-> TRUE,
               val |-> MkProof(s[i + 1], SubSeq(s, i + 3, i + 2 + s[i + 2])),
               next |-> i + 3 + s[i + 2]]
         ELSE [ok |-> FALSE, val |-> NilProof, next |-> i]

DecodeHeaderAt(s, i) ==
    LET p == DecodeProofAt(s, i + 3)
    IN  IF i + 2 <= Len(s) /\ p.ok
        THEN [ok |-> TRUE, val |-> MkHeader(s[i], s[i + 1], s[i + 2], p.val),
              next |-> p.next]
        ELSE [ok |-> FALSE, val |-> MkHeader(0, 0, 0, NilProof), next |-> i]

DecodeTxAt(s, i) ==
    LET p == DecodeProofAt(s, i + 2)
    IN  IF i + 1 <= Len(s) /\ p.ok
        THEN [ok |-> TRUE, val |-> MkTx(s[i], s[i + 1], p.val), next |-> p.next]
        ELSE [ok |-> FALSE, val |-> MkTx(0, 0, NilProof), next |-> i]

RECURSIVE DecodeTxsAt(_, _, _)
DecodeTxsAt(s, i, n) ==
    IF n = 0 THEN [ok |-> TRUE, val |-> <<>>, next |-> i]
    ELSE LET t == DecodeTxAt(s, i)
             r == DecodeTxsAt(s, t.next, n - 1)
         IN  IF t.ok /\ r.ok
             THEN [ok |-> TRUE, val |-> <<t.val>> \o r.val, next |-> r.next]
             ELSE [ok |-> FALSE, val |-> <<>>, next |-> i]

\* cbor.Unmarshal(data, &blockHeader): trailing items are an error
UnmarshalHeader(s) ==
    LET h == DecodeHeaderAt(s, 1)
    IN  IF h.ok /\ h.next = Len(s) + 1
        THEN [err |-> Nil, header |-> h.val]
        ELSE [err |-> "decode", header |-> MkHeader(0, 0, 0, NilProof)]

\* cbor.Unmarshal(data, &block)
UnmarshalBlock(s) ==
    LET h == DecodeHeaderAt(s, 1)
        n == IF h.ok /\ h.next <= Len(s) THEN s[h.next] ELSE 0
        t == DecodeTxsAt(s, h.next + 1, n)
    IN  IF h.ok /\ h.next <= Len(s) /\ t.ok /\ t.next = Len(s) + 1
        THEN [err |-> Nil, block |-> MkBlock(h.val, t.val)]
        ELSE [err |-> "decode", block |-> MkBlock(MkHeader(0, 0, 0, NilProof), <<>>)]

\* hex.EncodeToString(hash): two digits per byte, high digit first
HexEncodeToString(hash) == <<hash \div 16, hash % 16>>

(***************************************************************************)
(* pool.BlockPool over the LMDB environment. db maps keys to values; a key  *)
(* is the pair <<prefix, hex>> (the program concatenates them).             *)
(***************************************************************************)
DefaultBlockPrefix == "block_"

DefaultBlockHeaderPrefix == "header_"

ErrBlockNotFound == "block isn't found"

EmptyDB == [k \in {} |-> <<>>]

\* txn.Put(dbi, key, val, 0): flags 0, an existing key is overwritten
TxnPut(txn, key, val) ==
    [k \in DOMAIN txn \cup {key} |-> IF k = key THEN val ELSE txn[k]]

\* what can go wrong inside one StoreBlock
StoreFaults == {"none", "marshalBlock", "marshalHeader", "putBlock", "putHeader",
                "commit", "crashAfterPutBlock", "crashAfterPutHeader"}

\* the closure StoreBlock hands to dbEnv.Update, run on the transaction's view
\* txn; answers the view it leaves and the error it returns
StoreBlockTxn(txn, block, fault) ==
    LET blockHash == HexEncodeToString(block.Header.Hash)
        t1 == TxnPut(txn, <<DefaultBlockPrefix, blockHash>>, MarshalBlock(block))
        t2 == TxnPut(t1, <<DefaultBlockHeaderPrefix, blockHash>>,
                     MarshalHeader(block.Header))
    IN  IF fault \in {"marshalBlock", "marshalHeader"} THEN [txn |-> txn, err |-> "marshal"]
        ELSE IF fault = "putBlock" THEN [txn |-> txn, err |-> "put"]
        ELSE IF fault = "crashAfterPutBlock" THEN [txn |-> t1, err |-> "crash"]
        ELSE IF fault = "putHeader" THEN [txn |-> t1, err |-> "put"]
        ELSE IF fault = "crashAfterPutHeader" THEN [txn |-> t2, err |-> "crash"]
        ELSE [txn |-> t2, err |-> Nil]

\* a StoreBlock whose puts go to the database outside any transaction
StoreBlockUnbuffered(d, block, fault) ==
    LET r == StoreBlockTxn(d, block, fault)
    IN  [db |-> r.txn, err |-> IF r.err = Nil /\ fault = "commit" THEN "commit" ELSE r.err]

\* BlockPool.StoreBlock: dbEnv.Update begins a write transaction on the
\* committed content d, runs the closure, commits when it returned nil and
\* aborts otherwise; a crash before the commit leaves d
StoreBlock(d, block, fault) ==
    LET r == StoreBlockTxn(d, block, fault)
    IN  IF r.err # Nil THEN [db |-> d, err |-> r.err]
        ELSE IF fault = "commit" THEN [db |-> d, err |-> "commit"]
        ELSE [db |-> r.txn, err |-> Nil]

\* BlockPool.HasBlock
HasBlock(d, blockHash) == <<DefaultBlockPrefix, blockHash>> \in DOMAIN d

\* a FetchBlock that reads the header key
FetchBlockFromHeaderKey(d, blockHash) ==
    IF <<DefaultBlockHeaderPrefix, blockHash>> \notin DOMAIN d
    THEN [err |-> ErrBlockNotFound, block |-> MkBlock(MkHeader(0, 0, 0, NilProof), <<>>)]
    ELSE UnmarshalBlock(d[<<DefaultBlockHeaderPrefix, blockHash>>])

\* BlockPool.FetchBlock
FetchBlock(d, blockHash) ==
    IF <<DefaultBlockPrefix, blockHash>> \notin DOMAIN d
    THEN [err |-> ErrBlockNotFound, block |-> MkBlock(MkHeader(0, 0, 0, NilProof), <<>>)]
    ELSE UnmarshalBlock(d[<<DefaultBlockPrefix, blockHash>>])

\* BlockPool.FetchBlockHeader
FetchBlockHeader(d, blockHash) ==
    IF <<DefaultBlockHeaderPrefix, blockHash>> \notin DOMAIN d
    THEN [err |-> ErrBlockNotFound, header |-> MkHeader(0, 0, 0, NilProof)]
    ELSE UnmarshalHeader(d[<<DefaultBlockHeaderPrefix, blockHash>>])

\* the headers the pool holds (a scan of the header_ keys)
StoredHeaders(d) ==
    {UnmarshalHeader(d[k]).header : k \in {x \in DOMAIN d : x[1] = DefaultBlockHeaderPrefix}}

\* the blocks the pool holds
StoredBlocks(d) ==
    {UnmarshalBlock(d[k]).block : k \in {x \in DOMAIN d : x[1] = DefaultBlockPrefix}}

\* BlockPool.FetchBlockHeaderByHeight: the possible answers. The storage layer
\* keeps no height index, so the lookup is a scan; when several stored headers
\* carry the height, any of them may be the answer.
FetchBlockHeaderByHeight(d, height) ==
    IF {h \in StoredHeaders(d) : h.Height = height} = {}
    THEN {[err |-> ErrBlockNotFound, header |-> MkHeader(0, 0, 0, NilProof)]}
    ELSE {[err |-> Nil, header |-> h] : h \in {x \in StoredHeaders(d) : x.Height = height}}

ErrLatestHeightNil == "latest height is nil"

\* BlockPool.GetLatestBlockHeight: the greatest stored height; on an empty pool
\* the zero value and ErrLatestHeightNil
GetLatestBlockHeight(d) ==
    IF StoredHeaders(d) = {} THEN [height |-> 0, err |-> ErrLatestHeightNil]
    ELSE [height |-> CHOOSE m \in {h.Height : h \in StoredHeaders(d)} :
                        \A h \in StoredHeaders(d) : h.Height <= m,
          err |-> Nil]

(***************************************************************************)
(* State at construction (NewBlockPool on a fresh directory, NewSyncManager)*)
(***************************************************************************)
NoOp == [op |-> "none", err |-> Nil]

SyncIdle ==
    /\ mempool = [h \in {} |-> MkTx(0, 0, NilProof)]
    /\ pcStart = "idle"
    /\ pcStop = "idle"
    /\ pcLoop = "none"
    /\ wg = 0
    /\ ctxDone = FALSE
    /\ initialSyncCompleted = FALSE
    /\ ourLastHeight = 0
    /\ replyHeight = 0
    /\ heightCount = 0
    /\ from = 0
    /\ to = 0
    /\ receivedBlocks = <<>>
    /\ procIdx = 0
    /\ rangeReqs = <<>>
    /\ txsToRetrieve = <<>>
    /\ txReqs = [n |-> 0, items |-> <<>>]
    /\ syncErr = <<>>

(***************************************************************************)
(* Spec: the block pool API.                                                *)
(***************************************************************************)
PoolHeights == {0, 1}

PoolHashes == {0, 1}

PoolTx1 == MkTx(1, 0, MkProof(0, <<>>))

PoolTx2 == MkTx(3, 1, NilProof)

\* <<LastHashProof, Data>> of the blocks handed to StoreBlock
PoolShapes == {<<NilProof, <<>>>>,
               <<MkProof(1, <<3>>), <<PoolTx1>>>>,
               <<MkProof(0, <<>>), <<PoolTx1, PoolTx2>>>>}

PoolBlocks ==
    {MkBlock(MkHeader(h, x, GenesisHash, s[1]), s[2]) :
        h \in PoolHeights, x \in PoolHashes, s \in PoolShapes}

PoolKeys == {HexEncodeToString(x) : x \in PoolHashes}

Init ==
    /\ db = EmptyDB
    /\ last = NoOp
    /\ SyncIdle

\* a call of BlockPool.StoreBlock, with or without a storage fault
StoreBlockCall ==
    \E b \in PoolBlocks, f \in StoreFaults :
        LET r == StoreBlock(db, b, f)
        IN  /\ db' = r.db
            /\ last' = [op |-> "StoreBlock", err |-> r.err, block |-> b, fault |-> f,
                        before |-> db]
            /\ UNCHANGED <<mempool, syncVars>>

\* a call of BlockPool.FetchBlock
FetchBlockCall ==
    \E h \in PoolKeys :
        /\ last' = [op |-> "FetchBlock", err |-> FetchBlock(db, h).err, key |-> h,
                    block |-> FetchBlock(db, h).block]
        /\ UNCHANGED <<db, mempool, syncVars>>

\* a call of BlockPool.FetchBlockHeader
FetchBlockHeaderCall ==
    \E h \in PoolKeys :
        /\ last' = [op |-> "FetchBlockHeader", err |-> FetchBlockHeader(db, h).err,
                    key |-> h, header |-> FetchBlockHeader(db, h).header]
        /\ UNCHANGED <<db, mempool, syncVars>>

\* a call of BlockPool.HasBlock
HasBlockCall ==
    \E h \in PoolKeys :
        /\ last' = [op |-> "HasBlock", err |-> Nil, key |-> h, found |-> HasBlock(db, h)]
        /\ UNCHANGED <<db, mempool, syncVars>>

Next == StoreBlockCall \/ FetchBlockCall \/ FetchBlockHeaderCall \/ HasBlockCall

Spec == Init /\ [][Next]_vars

\* C1: the pool is atomic per block: in every reachable state a block_ key is
\* present iff the header_ key of the same hash is, and a StoreBlock that failed
\* at any step (serialization, first put, second put, commit) or was cut by a
\* crash left the database as it was before the call.
C1_PoolAtomicity ==
    /\ \A x \in PoolHashes :
          <<DefaultBlockPrefix, HexEncodeToString(x)>> \in DOMAIN db
              <=> <<DefaultBlockHeaderPrefix, HexEncodeToString(x)>> \in DOMAIN db
    /\ \A k \in DOMAIN db :
          /\ k[1] \in {DefaultBlockPrefix, DefaultBlockHeaderPrefix}
          /\ k[2] \in PoolKeys
    /\ (last.op = "StoreBlock" /\ last.err # Nil) => db = last.before

\* a StoreBlock failed at its second put, on a pool that held another block
C1_Witness ==
    /\ last.op = "StoreBlock"
    /\ last.fault = "putHeader"
    /\ last.err = "put"
    /\ DOMAIN db # {}
    /\ ~HasBlock(db, HexEncodeToString(last.block.Header.Hash))

\* C2: after a successful StoreBlock(b), FetchBlock(hex(b.hash)) succeeds and
\* returns a record equal to b, and FetchBlockHeader(hex(b.hash)) succeeds and
\* returns a record equal to b.Header.
C2_StoreFetchRoundTrip ==
    (last.op = "StoreBlock" /\ last.err = Nil) =>
        /\ FetchBlock(db, HexEncodeToString(last.block.Header.Hash))
               = [err |-> Nil, block |-> last.block]
        /\ FetchBlockHeader(db, HexEncodeToString(last.block.Header.Hash))
               = [err |-> Nil, header |-> last.block.Header]

\* a block with a proof and two transactions was stored over another block
\* of the same hash
C2_Witness ==
    /\ last.op = "StoreBlock"
    /\ last.err = Nil
    /\ Len(last.block.Data) = 2
    /\ ~last.block.Header.LastHashProof.IsNil
    /\ HasBlock(last.before, HexEncodeToString(last.block.Header.Hash))

\* C3: stored blocks are immutable: whatever a block or header fetch returns
\* successfully in a state, it returns after every further step.
C3_StoredBlocksImmutable ==
    [][\A h \in PoolKeys :
          /\ FetchBlock(db, h).err = Nil => FetchBlock(db', h) = FetchBlock(db, h)
          /\ FetchBlockHeader(db, h).err = Nil
                => FetchBlockHeader(db', h) = FetchBlockHeader(db, h)]_vars

(***************************************************************************)
(* syncManager.processReceivedBlock                                         *)
(***************************************************************************)
\* block.Header.Height - 1 on uint64; 0 - 1 wraps to 2^64 - 1, written -1 here
\* (no block of the model carries that height)
PrevHeight(block) == IF block.Header.Height = 0 THEN -1 ELSE block.Header.Height - 1

\* a loop over block.Data that leaves out the ValidateHash check
RECURSIVE CheckTxsNoValidateHash(_, _)
CheckTxsNoValidateHash(block, i) ==
    IF i > Len(block.Data) THEN Nil
    ELSE LET tx == block.Data[i]
             v == VerifyProofUsing(tx.Hash, tx.MerkleProof, block.Header.Hash)
         IN  IF tx.MerkleProof.IsNil THEN "block transaction hasn't merkle proof"
             ELSE IF v.err # Nil THEN "failed to verify tx hash merkle proof"
             ELSE IF ~v.verified
                  THEN "transaction doesn't present in block hash merkle tree"
             ELSE CheckTxsNoValidateHash(block, i + 1)

\* the loop over block.Data from position i on: the error of the first
\* transaction that fails a check, Nil when none does
RECURSIVE CheckTxs(_, _)
CheckTxs(block, i) ==
    IF i > Len(block.Data) THEN Nil
    ELSE LET tx == block.Data[i]
             v == VerifyProofUsing(tx.Hash, tx.MerkleProof, block.Header.Hash)
         IN  IF tx.MerkleProof.IsNil THEN "block transaction hasn't merkle proof"
             ELSE IF v.err # Nil THEN "failed to verify tx hash merkle proof"
             ELSE IF ~v.verified
                  THEN "transaction doesn't present in block hash merkle tree"
             ELSE IF ~ValidateHash(tx) THEN "transaction hash is invalid"
             ELSE CheckTxs(block, i + 1)

\* a validation that does not look the predecessor up: it verifies the proof of
\* the block's own last hash and the transactions
ValidateBlockWithoutPredecessor(block, prev) ==
    LET v == VerifyProofUsing(block.Header.LastHash, block.Header.LastHashProof,
                              block.Header.Hash)
    IN  IF v.err # Nil THEN "failed to verify last block hash merkle proof"
        ELSE IF ~v.verified
             THEN "merkle hash of current block doesn't contain hash of previous block"
        ELSE CheckTxs(block, 1)

\* a validation that hands the verifier the block's own hash as the leaf and
\* the predecessor's hash as the root
ValidateBlockOwnHashAsLeaf(block, prev) ==
    LET v == VerifyProofUsing(block.Header.Hash, block.Header.LastHashProof,
                              prev.header.Hash)
    IN  IF prev.err # Nil THEN "failed to retrieve previous block"
        ELSE IF block.Header.LastHash # prev.header.Hash
             THEN "block header has invalid last block hash"
        ELSE IF v.err # Nil THEN "failed to verify last block hash merkle proof"
        ELSE IF ~v.verified
             THEN "merkle hash of current block doesn't contain hash of previous block"
        ELSE CheckTxs(block, 1)

\* a validation that ignores the verdict of the last-hash proof
ValidateBlockIgnoringVerdict(block, prev) ==
    LET v == VerifyProofUsing(prev.header.Hash, block.Header.LastHashProof,
                              block.Header.Hash)
    IN  IF prev.err # Nil THEN "failed to retrieve previous block"
        ELSE IF block.Header.LastHash # prev.header.Hash
             THEN "block header has invalid last block hash"
        ELSE IF v.err # Nil THEN "failed to verify last block hash merkle proof"
        ELSE CheckTxs(block, 1)

\* the validation part of processReceivedBlock; prev is what
\* FetchBlockHeaderByHeight(block.Header.Height - 1) answered
ValidateBlock(block, prev) ==
    LET v == VerifyProofUsing(prev.header.Hash, block.Header.LastHashProof,
                              block.Header.Hash)
    IN  IF prev.err # Nil THEN "failed to retrieve previous block"
        ELSE IF block.Header.LastHash # prev.header.Hash
             THEN "block header has invalid last block hash"
        ELSE IF v.err # Nil THEN "failed to verify last block hash merkle proof"
        ELSE IF ~v.verified
             THEN "merkle hash of current block doesn't contain hash of previous block"
        ELSE CheckTxs(block, 1)

\* syncManager.processReceivedBlock: the database it leaves and its error
processReceivedBlock(d, block, prev, fault) ==
    IF ValidateBlock(block, prev) # Nil
    THEN [db |-> d, err |-> ValidateBlock(block, prev)]
    ELSE IF StoreBlock(d, block, fault).err # Nil
         THEN [db |-> StoreBlock(d, block, fault).db,
               err |-> "failed to store block in blockpool"]
         ELSE [db |-> StoreBlock(d, block, fault).db, err |-> Nil]

(***************************************************************************)
(* IngestSpec: the pool as doInitialBlockPoolSync writes it. The genesis    *)
(* block is stored into an empty pool; then the received blocks, which the  *)
(* peer chooses, are processed one after the other.                         *)
(***************************************************************************)
MaxHeight == 2

PeerHeights == 0 .. MaxHeight

\* 1 = Keccak1(GenesisHash), 3 = Keccak1(1), 28 = Keccak2(1, 3), 57 = Keccak1(28)
PeerHashes == {1, 28, 57}

PeerLastHashes == {GenesisHash, 1, 28}

PeerProofs == {NilProof, MkProof(0, <<>>), MkProof(0, <<3>>), MkProof(1, <<1>>)}

\* MkTx(1, 0, MkProof(1, <<1>>)) is a transaction of the tree with root 28
PeerData == {<<>>,
             <<MkTx(1, 0, MkProof(1, <<1>>))>>,
             <<MkTx(1, 1, MkProof(1, <<1>>))>>,
             <<MkTx(1, 0, NilProof)>>,
             <<MkTx(1, 0, MkProof(0, <<1>>))>>,
             <<MkTx(1, 0, MkProof(1, <<1>>)), MkTx(1, 1, MkProof(1, <<1>>))>>}

PeerBlocks ==
    {MkBlock(MkHeader(h, x, l, p), d) :
        h \in PeerHeights, x \in PeerHashes, l \in PeerLastHashes, p \in PeerProofs,
        d \in PeerData}

IngestInit ==
    /\ db = EmptyDB
    /\ last = NoOp
    /\ SyncIdle

\* doInitialBlockPoolSync on an empty pool: GetLatestBlockHeight answers
\* ErrLatestHeightNil and the genesis block is stored
SeedGenesis ==
    /\ GetLatestBlockHeight(db).err = ErrLatestHeightNil
    /\ \E f \in StoreFaults :
          /\ db' = StoreBlock(db, GenesisBlock, f).db
          /\ last' = [op |-> "SeedGenesis", err |-> StoreBlock(db, GenesisBlock, f).err,
                      before |-> db]
    /\ UNCHANGED <<mempool, syncVars>>

\* one iteration of the loop over receivedBlocks, on a block the peer chose:
\* the block is rejected, or it passes validation and goes to StoreBlock
ProcessReceived ==
    /\ GetLatestBlockHeight(db).err = Nil
    /\ \E b \in PeerBlocks :
          \E prev \in FetchBlockHeaderByHeight(db, PrevHeight(b)) :
              IF ValidateBlock(b, prev) # Nil
              THEN /\ db' = processReceivedBlock(db, b, prev, "none").db
                   /\ last' = [op |-> "processReceivedBlock",
                               err |-> processReceivedBlock(db, b, prev, "none").err,
                               before |-> db]
              ELSE \E f \in StoreFaults :
                      /\ db' = processReceivedBlock(db, b, prev, f).db
                      /\ last' = [op |-> "processReceivedBlock",
                                  err |-> processReceivedBlock(db, b, prev, f).err,
                                  before |-> db, block |-> b, prev |-> prev.header,
                                  fault |-> f]
    /\ UNCHANGED <<mempool, syncVars>>

IngestNext == SeedGenesis \/ ProcessReceived

IngestSpec == IngestInit /\ [][IngestNext]_vars

\* processReceivedBlock got as far as StoreBlock in the last step
StoreAttempted == last.op = "processReceivedBlock" /\ "block" \in DOMAIN last

\* C4: every block with height > 0 that processReceivedBlock stores finds, at
\* that moment, a stored header at height - 1 whose hash equals its last hash;
\* and in every state every stored header with height > 0 has a stored header
\* at height - 1 whose hash equals its last hash.
C4_PredecessorLinkage ==
    /\ (StoreAttempted /\ last.err = Nil) =>
          \E p \in StoredHeaders(last.before) :
              /\ p.Height = last.block.Header.Height - 1
              /\ p.Hash = last.block.Header.LastHash
    /\ \A h \in StoredHeaders(db) :
          h.Height > 0 =>
              \E p \in StoredHeaders(db) :
                  p.Height = h.Height - 1 /\ p.Hash = h.LastHash

\* C5 as stated: a block is stored only if its proof verifies its own hash as
\* the leaf under the predecessor's hash as the root, so every stored block
\* with height > 0 carries such a proof.
C5_OwnHashIsLeaf ==
    /\ (StoreAttempted /\ last.err = Nil) =>
          VerifyProofUsing(last.block.Header.Hash, last.block.Header.LastHashProof,
                           last.prev.Hash).verified
    /\ \A b \in StoredBlocks(db) :
          b.Header.Height > 0 =>
              VerifyProofUsing(b.Header.Hash, b.Header.LastHashProof,
                               b.Header.LastHash).verified

\* C5 amended: a block is stored only if its proof verifies the predecessor's
\* hash as the leaf under the block's own hash as the root, so every stored
\* block with height > 0 carries a proof of its last hash under its own hash.
C5_PrevHashIsLeaf ==
    /\ (StoreAttempted /\ last.err = Nil) =>
          /\ last.prev.Hash = last.block.Header.LastHash
          /\ ~last.block.Header.LastHashProof.IsNil
          /\ VerifyProofUsing(last.prev.Hash, last.block.Header.LastHashProof,
                              last.block.Header.Hash).verified
    /\ \A b \in StoredBlocks(db) :
          b.Header.Height > 0 =>
              /\ ~b.Header.LastHashProof.IsNil
              /\ VerifyProofUsing(b.Header.LastHash, b.Header.LastHashProof,
                                  b.Header.Hash).verified

\* a block whose proof has a sibling hash was stored on the genesis block
C5_Witness ==
    /\ StoreAttempted
    /\ last.err = Nil
    /\ last.block.Header.Height = 1
    /\ Len(last.block.Header.LastHashProof.Hashes) = 1
    /\ HasBlock(db, HexEncodeToString(last.block.Header.Hash))

\* every check of the validation pipeline, on block b with predecessor answer p
\* in database d
AllChecksPass(d, b, p) ==
    /\ p \in StoredHeaders(d)
    /\ b.Header.Height > 0
    /\ p.Height = b.Header.Height - 1
    /\ b.Header.LastHash = p.Hash
    /\ ~b.Header.LastHashProof.IsNil
    /\ VerifyProofUsing(p.Hash, b.Header.LastHashProof, b.Header.Hash).verified
    /\ \A i \in 1 .. Len(b.Data) :
          /\ ~b.Data[i].MerkleProof.IsNil
          /\ VerifyProofUsing(b.Data[i].Hash, b.Data[i].MerkleProof,
                              b.Header.Hash).verified
          /\ b.Data[i].Hash = Keccak1(b.Data[i].Payload)

\* C6: processReceivedBlock reaches StoreBlock only if every check passed; when
\* it returns an error the pool is unchanged; so every stored block other than
\* genesis has a verified last-hash proof and only transactions with a present,
\* verified Merkle proof and a valid hash.
C6_AdmissionSound ==
    /\ StoreAttempted => AllChecksPass(last.before, last.block, last.prev)
    /\ (last.op = "processReceivedBlock" /\ last.err # Nil) => db = last.before
    /\ (last.op = "processReceivedBlock" /\ last.err = Nil) =>
          /\ StoreAttempted
          /\ db = TxnPut(TxnPut(last.before,
                    <<DefaultBlockPrefix, HexEncodeToString(last.block.Header.Hash)>>,
                    MarshalBlock(last.block)),
                    <<DefaultBlockHeaderPrefix, HexEncodeToString(last.block.Header.Hash)>>,
                    MarshalHeader(last.block.Header))
    /\ \A b \in StoredBlocks(db) :
          b # GenesisBlock =>
              /\ ~b.Header.LastHashProof.IsNil
              /\ VerifyProofUsing(b.Header.LastHash, b.Header.LastHashProof,
                                  b.Header.Hash).verified
              /\ \A i \in 1 .. Len(b.Data) :
                    /\ ~b.Data[i].MerkleProof.IsNil
                    /\ VerifyProofUsing(b.Data[i].Hash, b.Data[i].MerkleProof,
                                        b.Header.Hash).verified
                    /\ b.Data[i].Hash = Keccak1(b.Data[i].Payload)

\* a block whose header passed every check was rejected for a transaction
\* with an invalid hash, while the pool held a block with a transaction
C6_Witness ==
    /\ last.op = "processReceivedBlock"
    /\ last.err = "transaction hash is invalid"
    /\ \E b \in StoredBlocks(db) : Len(b.Data) > 0

(***************************************************************************)
(* The mempool (pool.Mempool), consumed through StoreTx and GetTransaction. *)
(***************************************************************************)
ErrTxNotFound == "tx isn't found"

\* Mempool.GetTransaction
GetTransaction(mp, hash) ==
    IF hash \in DOMAIN mp THEN [err |-> Nil, tx |-> mp[hash]]
    ELSE [err |-> ErrTxNotFound, tx |-> MkTx(0, 0, NilProof)]

\* Mempool.StoreTx: keyed by hash; storing a known hash again changes nothing;
\* the store itself may fail (ok = FALSE)
StoreTx(mp, tx, ok) ==
    IF ~ok THEN [mempool |-> mp, err |-> "store"]
    ELSE IF tx.Hash \in DOMAIN mp THEN [mempool |-> mp, err |-> Nil]
    ELSE [mempool |-> [h \in DOMAIN mp \cup {tx.Hash} |->
                          IF h = tx.Hash THEN tx ELSE mp[h]],
          err |-> Nil]

(***************************************************************************)
(* syncManager.onNewTransaction                                             *)
(***************************************************************************)
\* a callback that stores the transaction without validating its hash
onNewTransactionUnchecked(mp, message, ok) ==
    IF ~message.isTx
    THEN [mempool |-> mp, storeCalled |-> FALSE, log |-> "failed to convert payload"]
    ELSE [mempool |-> StoreTx(mp, message.tx, ok).mempool, storeCalled |-> TRUE,
          log |-> StoreTx(mp, message.tx, ok).err]

\* onNewTransaction(message): the mempool it leaves, whether it called
\* StoreTx, and what it logged
onNewTransaction(mp, message, ok) ==
    IF ~message.isTx
    THEN [mempool |-> mp, storeCalled |-> FALSE, log |-> "failed to convert payload"]
    ELSE IF ~ValidateHash(message.tx)
         THEN [mempool |-> mp, storeCalled |-> FALSE, log |-> "failed to validate tx hash"]
         ELSE [mempool |-> StoreTx(mp, message.tx, ok).mempool, storeCalled |-> TRUE,
               log |-> StoreTx(mp, message.tx, ok).err]

(***************************************************************************)
(* The batch arithmetic of the two initial syncs.                           *)
(***************************************************************************)
\* policy.MaxBlockCountForRetrieving (1000 in the deployed policy), scaled
MaxBlockCountForRetrieving == 2

\* policy.MaxTransactionCountForRetrieving (1000 in the deployed policy), scaled
MaxTransactionCountForRetrieving == 2

\* a batch step that asks for all the missing heights at once
NextBatchUncapped(hc, t) ==
    [from |-> t + 1, to |-> t + hc, heightCount |-> 0]

\* a batch step that starts the next range at the last height already asked
NextBatchOverlapping(hc, t) ==
    LET addedVal == IF hc < MaxBlockCountForRetrieving THEN hc
                    ELSE MaxBlockCountForRetrieving
    IN  [from |-> t, to |-> t + addedVal, heightCount |-> hc - addedVal]

\* one pass through the head of the loop "for heightCount > 0": the range to
\* request and the heights left after it
NextBatch(hc, t) ==
    LET addedVal == IF hc < MaxBlockCountForRetrieving THEN hc
                    ELSE MaxBlockCountForRetrieving
    IN  [from |-> t + 1, to |-> t + addedVal, heightCount |-> hc - addedVal]

\* the head of the loop of doInitialMempoolSync: the hashes to request and the
\* list left; a list of at most MaxTransactionCountForRetrieving hashes is
\* requested whole and left as it is
MempoolBatch(txs) ==
    IF Len(txs) > MaxTransactionCountForRetrieving
    THEN [txHashes |-> SubSeq(txs, 1, MaxTransactionCountForRetrieving),
          rest |-> SubSeq(txs, MaxTransactionCountForRetrieving + 1, Len(txs))]
    ELSE [txHashes |-> txs, rest |-> txs]

\* the first loop of doInitialMempoolSync: the inventory hashes from position
\* i on that the mempool does not hold
RECURSIVE MissingTxs(_, _, _)
MissingTxs(mp, inventory, i) ==
    IF i > Len(inventory) THEN <<>>
    ELSE IF GetTransaction(mp, inventory[i]).err = ErrTxNotFound
         THEN <<inventory[i]>> \o MissingTxs(mp, inventory, i + 1)
         ELSE MissingTxs(mp, inventory, i + 1)

\* a store loop that gives up at the first transaction the mempool knows
RECURSIVE StoreReplyTxsStopAtKnown(_, _, _, _)
StoreReplyTxsStopAtKnown(mp, txs, oks, i) ==
    IF i > Len(txs) THEN mp
    ELSE IF txs[i].Hash \in DOMAIN mp THEN mp
    ELSE StoreReplyTxsStopAtKnown(StoreTx(mp, txs[i], oks[i]).mempool, txs, oks, i + 1)

\* the loop over getMempoolTxReply.Transactions: every transaction goes to
\* StoreTx; oks[i] tells whether the i-th store succeeds
RECURSIVE StoreReplyTxs(_, _, _, _)
StoreReplyTxs(mp, txs, oks, i) ==
    IF i > Len(txs) THEN mp
    ELSE StoreReplyTxs(StoreTx(mp, txs[i], oks[i]).mempool, txs, oks, i + 1)

(***************************************************************************)
(* SyncSpec: Start, the syncLoop goroutine, Stop and the gossip callback.   *)
(* Start runs on its caller's goroutine; every peer call is a point where   *)
(* the other goroutines may run. The bootstrap peer answers what it likes.  *)
(***************************************************************************)
MaxLocalHeight == 1

MaxPeerHeight == 4

MaxTxCalls == 2

RECURSIVE HonestHash(_)
HonestHash(h) == IF h = 0 THEN GenesisHash ELSE Keccak1(HonestHash(h - 1))

\* the block of height h of the chain the peer serves
HonestBlock(h) ==
    IF h = 0 THEN GenesisBlock
    ELSE MkBlock(MkHeader(h, HonestHash(h), HonestHash(h - 1), MkProof(0, <<>>)), <<>>)

\* the same block with its last-hash proof replaced
TamperedBlock(h) ==
    MkBlock(MkHeader(h, HonestHash(h), HonestHash(h - 1), MkProof(0, <<1>>)), <<>>)

RECURSIVE HonestRange(_, _)
HonestRange(f, t) == IF f > t THEN <<>> ELSE <<HonestBlock(f)>> \o HonestRange(f + 1, t)

\* a pool that holds the chain up to height l
RECURSIVE ChainDB(_)
ChainDB(l) ==
    IF l < 0 THEN EmptyDB ELSE StoreBlock(ChainDB(l - 1), HonestBlock(l), "none").db

\* what the storage may do to a StoreBlock during the sync: succeed or fail
SyncStoreFaults == {"none", "commit"}

\* replies to LastBlockHeight: a transport error, a reply with its error field
\* set, or a height
HeightReplies ==
    {[err |-> "transport", replyErr |-> Nil, Height |-> 0],
     [err |-> Nil, replyErr |-> "remote", Height |-> 0]}
        \cup {[err |-> Nil, replyErr |-> Nil, Height |-> p] : p \in 0 .. MaxPeerHeight}

\* replies to GetRangeOfBlocks{f, t}: a transport error; the blocks of the
\* range; the range without its last block, reported as failed; a reply with
\* its error field set; the range with its first block tampered
RangeReplies(f, t) ==
    {[err |-> "transport", replyErr |-> Nil, Blocks |-> <<>>, FailedBlockHeights |-> <<>>],
     [err |-> Nil, replyErr |-> Nil, Blocks |-> HonestRange(f, t),
      FailedBlockHeights |-> <<>>],
     [err |-> Nil, replyErr |-> Nil, Blocks |-> HonestRange(f, t - 1),
      FailedBlockHeights |-> <<t>>],
     [err |-> Nil, replyErr |-> "remote", Blocks |-> <<>>, FailedBlockHeights |-> <<>>],
     [err |-> Nil, replyErr |-> Nil,
      Blocks |-> <<TamperedBlock(f)>> \o HonestRange(f + 1, t),
      FailedBlockHeights |-> <<>>]}

\* the transaction the peer holds under a hash
PeerTxOf(hash) == MkTx(hash, (hash - 1) \div 2, NilProof)

\* a transaction whose hash does not match its content
BadTx == MkTx(5, 0, NilProof)

\* an inventory one hash longer than a GetMempoolTxs call may carry
LongInventory == [i \in 1 .. MaxTransactionCountForRetrieving + 1 |-> Pow2(i) - 1]

Inventories == {<<>>, <<1>>, <<1, 3>>, <<1, 1>>, LongInventory}

InvReplies ==
    {[err |-> "transport", Inventory |-> <<>>]}
        \cup {[err |-> Nil, Inventory |-> inv] : inv \in Inventories}

\* replies to GetMempoolTxs{items}: a transport error; a reply with its error
\* field set; the transactions asked for; all but the first (not found); the
\* transactions asked for and one with an invalid hash
TxsReplies(items) ==
    {[err |-> "transport", replyErr |-> Nil, Transactions |-> <<>>],
     [err |-> Nil, replyErr |-> "remote", Transactions |-> <<>>],
     [err |-> Nil, replyErr |-> Nil,
      Transactions |-> [i \in 1 .. Len(items) |-> PeerTxOf(items[i])]],
     [err |-> Nil, replyErr |-> Nil,
      Transactions |-> [i \in 1 .. Len(items) - 1 |-> PeerTxOf(items[i + 1])]],
     [err |-> Nil, replyErr |-> Nil,
      Transactions |-> [i \in 1 .. Len(items) |-> PeerTxOf(items[i])] \o <<BadTx>>]}

\* gossip on the NewTx topic: a valid transaction, one with an invalid hash,
\* a payload that is no Transaction
GossipMessages ==
    {[isTx |-> TRUE, tx |-> PeerTxOf(1)],
     [isTx |-> TRUE, tx |-> MkTx(3, 0, NilProof)],
     [isTx |-> FALSE, tx |-> MkTx(0, 0, NilProof)]}

SyncInit ==
    /\ db \in {ChainDB(l) : l \in -1 .. MaxLocalHeight}
    /\ last = NoOp
    /\ SyncIdle

\* the locals of doInitialBlockPoolSync go with its return
ResetBlockLocals ==
    /\ ourLastHeight' = 0
    /\ replyHeight' = 0
    /\ heightCount' = 0
    /\ from' = 0
    /\ to' = 0
    /\ receivedBlocks' = <<>>
    /\ procIdx' = 0
    /\ rangeReqs' = <<>>

\* doInitialBlockPoolSync returns err to Start, which logs it and calls
\* doInitialMempoolSync, whose first statement is the Mempool call
BlockSyncReturns(err) ==
    /\ syncErr' = Append(syncErr, [sync |-> "blockpool", err |-> err])
    /\ pcStart' = "awaitInv"
    /\ ResetBlockLocals

\* doInitialMempoolSync returns err to Start, which logs it, launches the
\* syncLoop goroutine and returns
MempoolSyncReturns(err) ==
    /\ syncErr' = Append(syncErr, [sync |-> "mempool", err |-> err])
    /\ pcStart' = "returned"
    /\ pcLoop' = "ready"
    /\ txsToRetrieve' = <<>>

\* the head of the loop of doInitialMempoolSync on the list txs: leave the
\* loop, or issue GetMempoolTxs for the next batch
MempoolLoopHead(txs) ==
    IF Len(txs) = 0
    THEN /\ MempoolSyncReturns(Nil)
         /\ UNCHANGED txReqs
    ELSE /\ txsToRetrieve' = MempoolBatch(txs).rest
         /\ txReqs' = [n |-> IF txReqs.n < MaxTxCalls THEN txReqs.n + 1 ELSE MaxTxCalls,
                       items |-> MempoolBatch(txs).txHashes]
         /\ pcStart' = "awaitTxs"
         /\ UNCHANGED <<syncErr, pcLoop>>

\* Start up to the LastBlockHeight call: wg.Add(1), the latest local height,
\* the genesis block into an empty pool
StartCall ==
    /\ pcStart = "idle"
    /\ wg' = wg + 1
    /\ IF initialSyncCompleted
       THEN /\ BlockSyncReturns(Nil)
            /\ UNCHANGED <<db, last>>
       ELSE IF GetLatestBlockHeight(db).err = ErrLatestHeightNil
       THEN \E f \in SyncStoreFaults :
               /\ db' = StoreBlock(db, GenesisBlock, f).db
               /\ last' = [op |-> "SeedGenesis",
                           err |-> StoreBlock(db, GenesisBlock, f).err, before |-> db]
               /\ IF StoreBlock(db, GenesisBlock, f).err # Nil
                  THEN BlockSyncReturns(StoreBlock(db, GenesisBlock, f).err)
                  ELSE /\ pcStart' = "awaitHeight"
                       /\ ourLastHeight' = GetLatestBlockHeight(db).height
                       /\ UNCHANGED <<replyHeight, heightCount, from, to, receivedBlocks,
                                      procIdx, rangeReqs, syncErr>>
       ELSE /\ pcStart' = "awaitHeight"
            /\ ourLastHeight' = GetLatestBlockHeight(db).height
            /\ UNCHANGED <<db, last, replyHeight, heightCount, from, to, receivedBlocks,
                           procIdx, rangeReqs, syncErr>>
    /\ UNCHANGED <<mempool, mempoolSyncVars, pcStop, pcLoop, ctxDone,
                   initialSyncCompleted>>

\* the LastBlockHeight call returns; on a greater height the first
\* GetRangeOfBlocks call is issued
HeightReply ==
    /\ pcStart = "awaitHeight"
    /\ \E r \in HeightReplies :
          /\ last' = [op |-> "LastBlockHeight", err |-> r.err, replyErr |-> r.replyErr,
                      Height |-> r.Height, before |-> db]
          /\ IF r.err # Nil THEN BlockSyncReturns(r.err)
             ELSE IF r.replyErr # Nil THEN BlockSyncReturns(r.replyErr)
             ELSE IF r.Height > ourLastHeight
             THEN /\ replyHeight' = r.Height
                  /\ from' = NextBatch(r.Height - ourLastHeight, ourLastHeight).from
                  /\ to' = NextBatch(r.Height - ourLastHeight, ourLastHeight).to
                  /\ heightCount' =
                         NextBatch(r.Height - ourLastHeight, ourLastHeight).heightCount
                  /\ rangeReqs' = Append(rangeReqs,
                         [From |-> NextBatch(r.Height - ourLastHeight, ourLastHeight).from,
                          To |-> NextBatch(r.Height - ourLastHeight, ourLastHeight).to])
                  /\ pcStart' = "awaitBlocks"
                  /\ UNCHANGED <<ourLastHeight, receivedBlocks, procIdx, syncErr>>
             ELSE BlockSyncReturns(Nil)
    /\ UNCHANGED <<db, mempool, mempoolSyncVars, pcStop, pcLoop, wg, ctxDone,
                   initialSyncCompleted>>

\* a GetRangeOfBlocks call returns: the blocks join the accumulator (the error
\* field of the reply is not read) and the next range is requested, or the
\* loop over the accumulator begins
BlocksReply ==
    /\ pcStart = "awaitBlocks"
    /\ \E r \in RangeReplies(from, to) :
          /\ last' = [op |-> "GetRangeOfBlocks", err |-> r.err, replyErr |-> r.replyErr,
                      failed |-> r.FailedBlockHeights, before |-> db]
          /\ IF r.err # Nil THEN BlockSyncReturns(r.err)
             ELSE /\ receivedBlocks' = receivedBlocks \o r.Blocks
                  /\ IF heightCount > 0
                     THEN /\ from' = NextBatch(heightCount, to).from
                          /\ to' = NextBatch(heightCount, to).to
                          /\ heightCount' = NextBatch(heightCount, to).heightCount
                          /\ rangeReqs' = Append(rangeReqs,
                                 [From |-> NextBatch(heightCount, to).from,
                                  To |-> NextBatch(heightCount, to).to])
                          /\ UNCHANGED <<pcStart, procIdx>>
                     ELSE /\ pcStart' = "process"
                          /\ procIdx' = 1
                          /\ UNCHANGED <<from, to, heightCount, rangeReqs>>
                  /\ UNCHANGED <<ourLastHeight, replyHeight, syncErr>>
    /\ UNCHANGED <<db, mempool, mempoolSyncVars, pcStop, pcLoop, wg, ctxDone,
                   initialSyncCompleted>>

\* an iteration of the loop over receivedBlocks that returns the error of
\* processReceivedBlock instead of going on to the next block
ProcessStepAbortOnError ==
    /\ pcStart = "process"
    /\ procIdx <= Len(receivedBlocks)
    /\ \E prev \in FetchBlockHeaderByHeight(db, PrevHeight(receivedBlocks[procIdx])) :
          \E f \in SyncStoreFaults :
              /\ db' = processReceivedBlock(db, receivedBlocks[procIdx], prev, f).db
              /\ last' = [op |-> "processReceivedBlock",
                          err |-> processReceivedBlock(db, receivedBlocks[procIdx],
                                                       prev, f).err,
                          before |-> db, block |-> receivedBlocks[procIdx]]
              /\ IF processReceivedBlock(db, receivedBlocks[procIdx], prev, f).err # Nil
                 THEN BlockSyncReturns(
                          processReceivedBlock(db, receivedBlocks[procIdx], prev, f).err)
                 ELSE /\ procIdx' = procIdx + 1
                      /\ UNCHANGED <<ourLastHeight, replyHeight, heightCount, from, to,
                                     receivedBlocks, rangeReqs, pcStart, syncErr>>
    /\ UNCHANGED <<mempool, mempoolSyncVars, pcStop, pcLoop, wg, ctxDone,
                   initialSyncCompleted>>

\* one iteration of the loop over receivedBlocks
ProcessStep ==
    /\ pcStart = "process"
    /\ procIdx <= Len(receivedBlocks)
    /\ \E prev \in FetchBlockHeaderByHeight(db, PrevHeight(receivedBlocks[procIdx])) :
          \E f \in SyncStoreFaults :
              /\ db' = processReceivedBlock(db, receivedBlocks[procIdx], prev, f).db
              /\ last' = [op |-> "processReceivedBlock",
                          err |-> processReceivedBlock(db, receivedBlocks[procIdx],
                                                       prev, f).err,
                          before |-> db, block |-> receivedBlocks[procIdx]]
    /\ procIdx' = procIdx + 1
    /\ UNCHANGED <<mempool, ourLastHeight, replyHeight, heightCount, from, to,
                   receivedBlocks, rangeReqs, mempoolSyncVars, lifeVars>>

\* the loop over receivedBlocks is over: doInitialBlockPoolSync returns nil
BlockSyncDone ==
    /\ pcStart = "process"
    /\ procIdx > Len(receivedBlocks)
    /\ BlockSyncReturns(Nil)
    /\ UNCHANGED <<poolVars, mempoolSyncVars, pcStop, pcLoop, wg, ctxDone,
                   initialSyncCompleted>>

\* the Mempool call returns: the missing hashes are collected and the first
\* GetMempoolTxs call is issued
InvReply ==
    /\ pcStart = "awaitInv"
    /\ \E r \in InvReplies :
          /\ last' = [op |-> "Mempool", err |-> r.err, before |-> mempool]
          /\ IF r.err # Nil
             THEN /\ MempoolSyncReturns(r.err)
                  /\ UNCHANGED txReqs
             ELSE MempoolLoopHead(MissingTxs(mempool, r.Inventory, 1))
    /\ UNCHANGED <<db, mempool, blockSyncVars, pcStop, wg, ctxDone, initialSyncCompleted>>

\* a GetMempoolTxs call returns: the transactions of the reply are stored and
\* the loop goes round
TxsReply ==
    /\ pcStart = "awaitTxs"
    /\ \E r \in TxsReplies(txReqs.items) :
          IF r.err # Nil
          THEN /\ MempoolSyncReturns(r.err)
               /\ last' = [op |-> "doInitialMempoolSync", err |-> r.err,
                           before |-> mempool, txs |-> <<>>, oks |-> <<>>]
               /\ UNCHANGED <<txReqs, mempool>>
          ELSE IF r.replyErr # Nil
          THEN /\ MempoolSyncReturns(r.replyErr)
               /\ last' = [op |-> "doInitialMempoolSync", err |-> r.replyErr,
                           before |-> mempool, txs |-> <<>>, oks |-> <<>>]
               /\ UNCHANGED <<txReqs, mempool>>
          ELSE \E oks \in [1 .. Len(r.Transactions) -> BOOLEAN] :
                  /\ mempool' = StoreReplyTxs(mempool, r.Transactions, oks, 1)
                  /\ last' = [op |-> "doInitialMempoolSync", err |-> Nil,
                              before |-> mempool, txs |-> r.Transactions, oks |-> oks]
                  /\ MempoolLoopHead(txsToRetrieve)
    /\ UNCHANGED <<db, blockSyncVars, pcStop, wg, ctxDone, initialSyncCompleted>>

\* the syncLoop goroutine: its body is empty
SyncLoopRun ==
    /\ pcLoop = "ready"
    /\ pcLoop' = "done"
    /\ UNCHANGED <<poolVars, blockSyncVars, mempoolSyncVars, pcStart, pcStop, wg, ctxDone,
                   initialSyncCompleted, syncErr>>

\* Stop: sm.ctxCancelFunc(), then wg.Wait()
StopCall ==
    /\ pcStop = "idle"
    /\ ctxDone' = TRUE
    /\ pcStop' = "wait"
    /\ UNCHANGED <<poolVars, blockSyncVars, mempoolSyncVars, pcStart, pcLoop, wg,
                   initialSyncCompleted, syncErr>>

\* wg.Wait() returns when the counter is zero
StopReturn ==
    /\ pcStop = "wait"
    /\ wg = 0
    /\ pcStop' = "returned"
    /\ UNCHANGED <<poolVars, blockSyncVars, mempoolSyncVars, pcStart, pcLoop, wg, ctxDone,
                   initialSyncCompleted, syncErr>>

\* the pub/sub router delivers a message to onNewTransaction
OnNewTransaction ==
    /\ \E m \in GossipMessages, ok \in BOOLEAN :
          /\ mempool' = onNewTransaction(mempool, m, ok).mempool
          /\ last' = [op |-> "onNewTransaction", err |-> Nil, before |-> mempool,
                      message |-> m,
                      storeCalled |-> onNewTransaction(mempool, m, ok).storeCalled,
                      log |-> onNewTransaction(mempool, m, ok).log]
    /\ UNCHANGED <<db, syncVars>>

SyncNext ==
    \/ StartCall
    \/ HeightReply
    \/ BlocksReply
    \/ ProcessStep
    \/ BlockSyncDone
    \/ InvReply
    \/ TxsReply
    \/ SyncLoopRun
    \/ StopCall
    \/ StopReturn
    \/ OnNewTransaction

\* goroutines that can run do run, and every peer call returns
SyncSpec ==
    /\ SyncInit
    /\ [][SyncNext]_vars
    /\ WF_vars(StartCall)
    /\ WF_vars(HeightReply)
    /\ WF_vars(BlocksReply)
    /\ WF_vars(ProcessStep)
    /\ WF_vars(BlockSyncDone)
    /\ WF_vars(InvReply)
    /\ WF_vars(TxsReply)
    /\ WF_vars(SyncLoopRun)
    /\ WF_vars(StopCall)
    /\ WF_vars(StopReturn)

(***************************************************************************)
(* Properties of SyncSpec.                                                  *)
(***************************************************************************)
\* C7: every GetRangeOfBlocks request the initial block sync issues asks for
\* at most MaxBlockCountForRetrieving heights (To - From + 1), and every
\* GetMempoolTxs request the initial mempool sync issues carries at most
\* MaxTransactionCountForRetrieving hashes.
C7_BatchBound ==
    /\ \A i \in 1 .. Len(rangeReqs) :
          rangeReqs[i].To - rangeReqs[i].From + 1 <= MaxBlockCountForRetrieving
    /\ Len(txReqs.items) <= MaxTransactionCountForRetrieving

\* the peer is more than one batch ahead and the second range has been asked
C7_Witness ==
    /\ replyHeight - ourLastHeight > MaxBlockCountForRetrieving
    /\ Len(rangeReqs) >= 2
    /\ rangeReqs[1].To - rangeReqs[1].From + 1 = MaxBlockCountForRetrieving

\* C8: the GetRangeOfBlocks requests of one initial block sync start at the
\* local height plus one, each starts one above the end of the one before it,
\* none is empty, and once all of them have been answered the last ends at the
\* peer's height, so that together they cover local+1 .. peer height exactly.
C8_AscendingGapFree ==
    Len(rangeReqs) > 0 =>
        /\ rangeReqs[1].From = ourLastHeight + 1
        /\ \A i \in 1 .. Len(rangeReqs) : rangeReqs[i].From <= rangeReqs[i].To
        /\ \A i \in 1 .. Len(rangeReqs) - 1 :
              rangeReqs[i + 1].From = rangeReqs[i].To + 1
        /\ pcStart = "process" =>
              /\ rangeReqs[Len(rangeReqs)].To = replyHeight
              /\ UNION {rangeReqs[i].From .. rangeReqs[i].To : i \in 1 .. Len(rangeReqs)}
                     = (ourLastHeight + 1) .. replyHeight

\* every range was answered and there were at least two of them
C8_Witness ==
    /\ pcStart = "process"
    /\ Len(rangeReqs) >= 2
    /\ replyHeight > ourLastHeight

\* C9: once Start has returned, a Stop called from then on cancels the
\* context, waits on the wait group and eventually returns.
C9_StopTerminates ==
    (pcStart = "returned" /\ pcStop = "idle") ~> (pcStop = "returned")

\* C10: when onNewTransaction receives a payload that is no Transaction, or a
\* transaction whose ValidateHash is false, StoreTx is not called and the
\* mempool holds after the callback what it held before.
C10_InvalidGossipIgnored ==
    (/\ last.op = "onNewTransaction"
     /\ (~last.message.isTx \/ ~ValidateHash(last.message.tx)))
        => /\ ~last.storeCalled
           /\ mempool = last.before

\* a transaction with an invalid hash arrived at a mempool that holds others
C10_Witness ==
    /\ last.op = "onNewTransaction"
    /\ last.message.isTx
    /\ ~ValidateHash(last.message.tx)
    /\ ~last.storeCalled
    /\ DOMAIN mempool # {}

\* C11: every transaction the sync manager hands to StoreTx, from gossip or
\* from a GetMempoolTxs reply, has a valid hash, and so has every entry of the
\* mempool.
C11_NoMalformedTxAdmitted ==
    /\ (last.op = "onNewTransaction" /\ last.storeCalled) =>
          ValidateHash(last.message.tx)
    /\ last.op = "doInitialMempoolSync" =>
          \A i \in 1 .. Len(last.txs) : ValidateHash(last.txs[i])
    /\ \A h \in DOMAIN mempool : ValidateHash(mempool[h])

\* the entries of mempool mp that carry hash h
EntriesFor(mp, h) == {k \in DOMAIN mp : mp[k].Hash = h}

\* C12: however gossip callbacks interleave with each other and with the steps
\* of the initial mempool sync, the mempool holds at most one entry per hash;
\* a store of a hash the mempool already holds leaves its entry as it was and
\* does not end the sync with an error, the other transactions of the same
\* reply are still stored; and neither the callback nor the sync ever waits
\* for the other.
C12_IdempotentIngest ==
    /\ \A h \in DOMAIN mempool : Cardinality(EntriesFor(mempool, h)) <= 1
    /\ last.op \in {"onNewTransaction", "doInitialMempoolSync"} =>
          \A h \in DOMAIN last.before :
              h \in DOMAIN mempool /\ mempool[h] = last.before[h]
    /\ (last.op = "doInitialMempoolSync" /\ last.err = Nil) =>
          /\ \A i \in 1 .. Len(last.txs) :
                last.oks[i] => last.txs[i].Hash \in DOMAIN mempool
          /\ pcStart = "awaitTxs" \/ syncErr[Len(syncErr)].err = Nil
    /\ ENABLED OnNewTransaction
    /\ pcStart = "awaitInv" => ENABLED InvReply
    /\ pcStart = "awaitTxs" => ENABLED TxsReply

\* a GetMempoolTxs reply brought a transaction that gossip had stored while
\* the call was in flight, together with one the mempool did not hold
C12_Witness ==
    /\ last.op = "doInitialMempoolSync"
    /\ last.err = Nil
    /\ \E i \in 1 .. Len(last.txs) :
          /\ last.oks[i]
          /\ last.txs[i].Hash \in DOMAIN last.before
          /\ last.txs[i].Hash \in {txReqs.items[j] : j \in 1 .. Len(txReqs.items)}
    /\ DOMAIN mempool # DOMAIN last.before

\* C13: an initial mempool sync that has issued a GetMempoolTxs call
\* eventually returns to Start: the list of hashes to fetch shrinks with every
\* call, so only finitely many calls are issued.
C13_MempoolSyncTerminates ==
    (pcStart = "awaitTxs") ~> (pcStart = "returned")

\* C14: when a LastBlockHeight or GetRangeOfBlocks call of the initial block
\* sync fails in transport or returns a reply with its error field set, the
\* block sync ends with that error there and then: it issues no further range
\* request, processes none of the blocks received so far, and leaves the block
\* pool as it was.
C14_RpcErrorAborts ==
    (/\ last.op \in {"LastBlockHeight", "GetRangeOfBlocks"}
     /\ (last.err # Nil \/ last.replyErr # Nil))
        => /\ pcStart = "awaitInv"
           /\ syncErr[Len(syncErr)] =
                  [sync |-> "blockpool",
                   err |-> IF last.err # Nil THEN last.err ELSE last.replyErr]
           /\ db = last.before

\* C15: once the context is cancelled, an initial block sync that is at a
\* GetRangeOfBlocks call issues no GetRangeOfBlocks call for a later range,
\* and the blocks the pool holds stay in it.
C15_CancelStopsFetch ==
    [][(ctxDone /\ pcStart = "awaitBlocks") =>
          /\ Len(rangeReqs') <= Len(rangeReqs)
          /\ \A k \in DOMAIN db : k \in DOMAIN db']_vars

\* C16: whenever syncLoop has been launched, the initial block sync had
\* returned before the initial mempool sync began, both had returned before
\* the launch, and the block pool holds the genesis block.
C16_StartupOrderAndGenesis ==
    pcLoop # "none" =>
        /\ Len(syncErr) = 2
        /\ syncErr[1].sync = "blockpool"
        /\ syncErr[2].sync = "mempool"
        /\ pcStart = "returned"
        /\ FetchBlock(db, HexEncodeToString(GenesisHash)).err = Nil

\* C17: the loop over receivedBlocks starts only when every range has been
\* fetched; each of its steps invokes processReceivedBlock on the next block
\* of the accumulator in receipt order, whatever the invocations before it
\* returned; the block sync leaves the loop only after the last block and then
\* returns nil; and a reply that reports failed heights does not end the sync.
C17_SequentialProcessing ==
    [][/\ pcStart = "process" =>
             /\ heightCount = 0
             /\ procIdx \in 1 .. Len(receivedBlocks) + 1
       /\ (pcStart = "process" /\ pcStart' = "process") =>
             /\ receivedBlocks' = receivedBlocks
             /\ procIdx' \in {procIdx, procIdx + 1}
             /\ procIdx' = procIdx + 1 =>
                   /\ last'.op = "processReceivedBlock"
                   /\ last'.block = receivedBlocks[procIdx]
                   /\ last'.before = db
       /\ (pcStart # "process" /\ pcStart' = "process") => procIdx' = 1
       /\ (pcStart = "process" /\ pcStart' # "process") =>
             /\ procIdx = Len(receivedBlocks) + 1
             /\ syncErr' = Append(syncErr, [sync |-> "blockpool", err |-> Nil])
       /\ (/\ pcStart = "awaitBlocks"
           /\ last'.op = "GetRangeOfBlocks"
           /\ last'.err = Nil
           /\ last'.failed # <<>>) => pcStart' \in {"awaitBlocks", "process"}
      ]_vars

\* the first block of the accumulator was not stored, and the loop still went
\* on to the last block, which failed too
C17_Witness ==
    /\ pcStart = "process"
    /\ Len(receivedBlocks) >= 2
    /\ procIdx = Len(receivedBlocks) + 1
    /\ last.op = "processReceivedBlock"
    /\ last.err # Nil
    /\ last.block = receivedBlocks[Len(receivedBlocks)]
    /\ ~HasBlock(db, HexEncodeToString(receivedBlocks[1].Header.Hash))

\* the accumulator holds one block per height, ascending from the local tip
OnePerHeightAscending ==
    \A i \in 1 .. Len(receivedBlocks) :
        receivedBlocks[i].Header.Height = ourLastHeight + i

\* the i-th block of the accumulator is in the pool
ReceivedStored(i) == receivedBlocks[i] \in StoredBlocks(db)

\* C18: in the loop over an accumulator that holds one block per height above
\* the local tip, a rejected block is not in the pool; once a block has been
\* rejected every later block fails the predecessor lookup and is not in the
\* pool either; so the stored heights are a gap-free prefix above the old tip.
C18_RejectionCascades ==
    (pcStart = "process" /\ OnePerHeightAscending) =>
        /\ \A i \in 1 .. procIdx - 1 :
              ReceivedStored(i) => \A j \in 1 .. i : ReceivedStored(j)
        /\ {h.Height : h \in StoredHeaders(db)} =
              0 .. (ourLastHeight
                      + Cardinality({i \in 1 .. procIdx - 1 : ReceivedStored(i)}))
        /\ (last.op = "processReceivedBlock" /\ last.err # Nil) =>
              /\ db = last.before
              /\ ~ReceivedStored(procIdx - 1)
        /\ (/\ last.op = "processReceivedBlock"
            /\ \E j \in 1 .. procIdx - 2 : ~ReceivedStored(j)) =>
              last.err = "failed to retrieve previous block"

\* the tampered first block was rejected, and the two after it were processed
C18_Witness ==
    /\ pcStart = "process"
    /\ OnePerHeightAscending
    /\ Len(receivedBlocks) >= 3
    /\ procIdx = Len(receivedBlocks) + 1
    /\ receivedBlocks[1] = TamperedBlock(ourLastHeight + 1)
    /\ last.op = "processReceivedBlock"
    /\ last.err = "failed to retrieve previous block"

\* every range was answered with exactly its blocks
HonestCatchUp ==
    /\ pcStart = "process"
    /\ replyHeight > ourLastHeight
    /\ receivedBlocks = HonestRange(ourLastHeight + 1, replyHeight)

\* C19: when the peer is ahead and every range was answered with exactly its
\* blocks, each step of the processing loop whose store does not fail adds the
\* next block to the chain in the pool, so that after the last step the pool
\* holds the peer's chain and its latest height is the peer's height; when the
\* peer is not ahead the block sync returns nil with no range requested and
\* the pool as it was.
C19_CatchUpReachesTip ==
    [][/\ (/\ HonestCatchUp
           /\ procIdx' = procIdx + 1
           /\ db = ChainDB(ourLastHeight + procIdx - 1)) =>
             \/ /\ last'.err = Nil
                /\ db' = ChainDB(ourLastHeight + procIdx)
                /\ GetLatestBlockHeight(db').height = ourLastHeight + procIdx
             \/ /\ last'.err = "failed to store block in blockpool"
                /\ db' = db
       /\ (/\ HonestCatchUp
           /\ procIdx = Len(receivedBlocks) + 1
           /\ db = ChainDB(replyHeight)) =>
             /\ Len(receivedBlocks) = replyHeight - ourLastHeight
             /\ \A i \in 1 .. Len(receivedBlocks) : ReceivedStored(i)
             /\ GetLatestBlockHeight(db).height = replyHeight
       /\ (/\ pcStart = "awaitHeight"
           /\ last'.op = "LastBlockHeight"
           /\ last'.err = Nil
           /\ last'.replyErr = Nil
           /\ last'.Height <= ourLastHeight) =>
             /\ pcStart' = "awaitInv"
             /\ syncErr' = Append(syncErr, [sync |-> "blockpool", err |-> Nil])
             /\ rangeReqs = <<>>
             /\ db' = db
             /\ GetLatestBlockHeight(db).height = ourLastHeight
      ]_vars

\* a pool that was empty has caught up with a peer more than one range ahead
C19_Witness ==
    /\ HonestCatchUp
    /\ ourLastHeight = 0
    /\ replyHeight > MaxBlockCountForRetrieving
    /\ procIdx = Len(receivedBlocks) + 1
    /\ db = ChainDB(replyHeight)
    /\ GetLatestBlockHeight(db).height = replyHeight

\* C20: initialSyncCompleted is true in every state in which syncLoop has been
\* launched.
C20_FlagSetBeforeLoop ==
    pcLoop # "none" => initialSyncCompleted

====
